---- MODULE Spec2Model ----
(***************************************************************************)
(* Model of the step-challenge tracker (src/app.py).                       *)
(*                                                                         *)
(* The program is one Streamlit script.  Every interaction re-runs it from *)
(* the top: it loads the CSV file (line 52), handles the submitted form    *)
(* (lines 70-88), loads the file again (line 90) and renders the views     *)
(* (lines 92-153).  The only state that survives a run is the CSV file.    *)
(*                                                                         *)
(* Dates are days of July 2025 (1..31); the date pickers admit no others.  *)
(* A row of the file is [name, start_date, end_date, steps] with the name  *)
(* as the text written in the file.  A loaded frame holds the same rows    *)
(* with the name as read_csv parsed it.                                    *)
(***************************************************************************)
EXTENDS Integers, Sequences, FiniteSets, TLC

\* ------------------------------------------------------------------ bounds
\* Most rows the file may hold before the model stops submitting.
MaxEntries == 3
\* Browser sessions running the script concurrently.
NumSessions == 2
\* Most rows the file may hold before a concurrent session starts a run.
MaxConcEntries == 2
\* Largest step total of the expansion samples.
MaxSteps == 40

\* --------------------------------------------------------- program constants
TEAM_GOAL == 500000
\* datetime.date(2025, 7, 1) and datetime.date(2025, 7, 31) as days of July
ALLOWED_START_DATE == 1
ALLOWED_END_DATE == 31

\* ------------------------------------------------------------ input domains
\* Names typed into the name box (already stripped, non-empty).
Names == {"Al", "al", "NA", "na"}
\* Days picked in the date inputs: Sunday 6 July (ISO week 27) and Monday
\* 7 July (ISO week 28).
Days == {6, 7}
\* Values typed into the number input.
StepValues == {5, 6}
\* The one value typed where the steps play no part (validation, saving).
OneStep == CHOOSE v \in StepValues : \A w \in StepValues : v <= w
Sessions == 1..NumSessions

\* A missing value (NaN) in a loaded frame.
NaN == "<NaN>"

VARIABLES
    store,      \* the rows of step_data.csv, in file order
    prev,       \* the rows of the file before the last step
    last,       \* inputs and outcome of the last script run that handled a form
    pc,         \* per session: "idle", "validated" (line 86 next), "saved"
    df,         \* per session: the frame the run loaded on line 52
    entry,      \* per session: the row the run appends
    sample,     \* the row handed to the expansion (expansion samples only)
    exploded    \* its per-day records

vars == <<store, prev, last, pc, df, entry, sample, exploded>>

\* ------------------------------------------------------------- Entry Store
\* The text values pandas.read_csv reads as missing (its default na_values);
\* "" is what to_csv writes for a missing value.
NA_VALUES ==
    {"", "#N/A", "#N/A N/A", "#NA", "-1.#IND", "-1.#QNAN", "-NaN", "-nan",
     "1.#IND", "1.#QNAN", "<NA>", "N/A", "NA", "NULL", "NaN", "None", "n/a",
     "nan", "null"}

\* read_csv on one name cell.
ParseName(text) == IF text \in NA_VALUES THEN NaN ELSE text

\* to_csv on one name cell (na_rep = "").
FormatName(name) == IF name = NaN THEN "" ELSE name

\* load_data: every row of the file, the name parsed.  Dates written by
\* to_csv parse back to the same day, so no row is dropped by dropna.
load_data(file) ==
    [i \in 1..Len(file) |-> [file[i] EXCEPT !.name = ParseName(file[i].name)]]

\* save_data's to_csv: the rows of the frame, the name formatted.
to_csv(frame) ==
    [i \in 1..Len(frame) |-> [frame[i] EXCEPT !.name = FormatName(frame[i].name)]]

\* ------------------------------------------------------- Overlap Validator
Max(a, b) == IF a >= b THEN a ELSE b
Min(a, b) == IF a <= b THEN a ELSE b

date_ranges_overlap(start1, end1, start2, end2) ==
    Max(start1, start2) <= Min(end1, end2)

\* str.lower() on the names of the model (a missing value stays missing).
Lower(name) ==
    CASE name = "Al" -> "al"
      [] name = "NA" -> "na"
      [] OTHER -> name

\* The .str accessor raises AttributeError on a column that is not text:
\* a name column whose every value is missing is read as float64.
StrAccessorFails(frame) ==
    /\ Len(frame) > 0
    /\ \A i \in 1..Len(frame) : frame[i].name = NaN

\* df[df['name'].str.lower() == name.lower()]: the positions kept.
SameName(frame, name) ==
    {i \in 1..Len(frame) : frame[i].name # NaN /\ Lower(frame[i].name) = Lower(name)}

\* overlap_found of line 75
overlap_found(frame, name, start_date, end_date) ==
    \E i \in SameName(frame, name) :
        date_ranges_overlap(start_date, end_date,
                            frame[i].start_date, frame[i].end_date)

\* The check of line 71.
InvalidRangeSwapped(start_date, end_date) == end_date > start_date

InvalidRange(start_date, end_date) == start_date > end_date

\* What the form handler shows for the inputs against the frame of line 52.
Outcome(frame, name, start_date, end_date) ==
    IF InvalidRange(start_date, end_date) THEN "InvalidRange"
    ELSE IF StrAccessorFails(frame) THEN "AttributeError"
    ELSE IF overlap_found(frame, name, start_date, end_date) THEN "OverlapConflict"
    ELSE "Accepted"

new_entry(name, start_date, end_date, steps) ==
    [name |-> name, start_date |-> start_date, end_date |-> end_date,
     steps |-> steps]

Run(name, start_date, end_date, steps, msg) ==
    [submitted |-> TRUE, name |-> name, start_date |-> start_date,
     end_date |-> end_date, steps |-> steps, msg |-> msg]

NoRow == new_entry("", ALLOWED_START_DATE, ALLOWED_START_DATE, 0)

\* -------------------------------------------------- Date Expansion Engine
\* n / d rounded the way Series.round() rounds a float: to the nearest
\* integer, a tie to the even one.
RoundDown(n, d) == n \div d

RoundHalfEven(n, d) ==
    LET q == n \div d
        r == n % d
    IN  IF 2 * r < d THEN q
        ELSE IF 2 * r > d THEN q + 1
        ELSE IF q % 2 = 0 THEN q ELSE q + 1

\* explode_dates: pd.date_range(start_date, end_date), empty when the start
\* is after the end.
explode_dates(row) ==
    [k \in 1..(row.end_date - row.start_date + 1) |-> row.start_date + k - 1]

\* dt.isocalendar().week of a day of July 2025.  1 January 2025 is a
\* Wednesday and 30 June is day 181 of the year.
Weekday(day) == ((181 + day + 1) % 7) + 1

ISOWeek(day) == ((181 + day) - Weekday(day) + 10) \div 7

\* The records lines 94-106 make of one row: one per day, each with the
\* row's steps over the number of days, rounded (line 106), and the ISO
\* week of the day (line 105).
ExplodeRow(row) ==
    LET dates == explode_dates(row)
    IN  [k \in 1..Len(dates) |->
            [name |-> row.name, date |-> dates[k],
             steps |-> RoundHalfEven(row.steps, Len(dates)),
             week |-> ISOWeek(dates[k])]]

RECURSIVE exploded_df(_)
exploded_df(frame) ==
    IF frame = <<>> THEN <<>>
    ELSE ExplodeRow(Head(frame)) \o exploded_df(Tail(frame))

\* ------------------------------------------------------ Aggregation Engine
RECURSIVE SumSteps(_)
SumSteps(records) ==
    IF records = <<>> THEN 0
    ELSE Head(records).steps + SumSteps(Tail(records))

\* groupby('name')['steps'].sum(): one row per name, a missing name in no
\* group.  The order sort_values gives the rows is not modelled.
GroupByName(records) ==
    [n \in {records[i].name : i \in 1..Len(records)} \ {NaN} |->
        SumSteps(SelectSeq(records, LAMBDA r : r.name = n))]

\* sorted(exploded_df['week'].unique())
weeks_available(records) == {records[i].week : i \in 1..Len(records)}

\* week_data of line 113
week_data_from(records, selected_week) ==
    SelectSeq(records, LAMBDA r : r.week >= selected_week)

week_data(records, selected_week) ==
    SelectSeq(records, LAMBDA r : r.week = selected_week)

week_leaderboard(records, selected_week) ==
    GroupByName(week_data(records, selected_week))

monthly_df(records) == GroupByName(records)

\* total_steps of line 133
total_steps_named(records) ==
    LET m == monthly_df(records)
        RECURSIVE Total(_)
        Total(S) == IF S = {} THEN 0
                    ELSE LET n == CHOOSE x \in S : TRUE
                         IN  m[n] + Total(S \ {n})
    IN  Total(DOMAIN m)

total_steps(records) == SumSteps(records)

\* daily_totals of line 138: one row per date, dates ascending.
RECURSIVE Ascending(_)
Ascending(S) ==
    IF S = {} THEN <<>>
    ELSE LET m == CHOOSE x \in S : \A y \in S : x <= y
         IN  <<m>> \o Ascending(S \ {m})

daily_totals(records) ==
    LET dates == Ascending({records[i].date : i \in 1..Len(records)})
    IN  [k \in 1..Len(dates) |->
            [date |-> dates[k],
             steps |-> SumSteps(SelectSeq(records, LAMBDA r : r.date = dates[k]))]]

\* user_entries of line 124: the rows of the name, ignoring case, by start
\* date (rows with the same start date in file order).
user_entries(frame, name) ==
    LET rows == SelectSeq(frame, LAMBDA r : r.name # NaN /\ Lower(r.name) = Lower(name))
        starts == Ascending({rows[i].start_date : i \in 1..Len(rows)})
        RECURSIVE Cat(_)
        Cat(k) == IF k > Len(starts) THEN <<>>
                  ELSE SelectSeq(rows, LAMBDA r : r.start_date = starts[k]) \o Cat(k + 1)
    IN  Cat(1)

\* The views one run of lines 90-153 shows for the frame of line 90: only
\* the notice for no records; the weekly leaderboard alone when line 124
\* raises; otherwise all of them.
Shown(frame) ==
    IF exploded_df(frame) = <<>> THEN {"info"}
    ELSE IF StrAccessorFails(frame) THEN {"weekly"}
    ELSE {"weekly", "history", "monthly", "progress", "daily"}

\* The pair st.metric shows on line 134.
team_progress(frame) == <<total_steps(exploded_df(frame)), TEAM_GOAL>>

\* ------------------------------------------------------------------- Init
Init ==
    /\ store = <<>>
    /\ prev = <<>>
    /\ last = [Run("", ALLOWED_START_DATE, ALLOWED_START_DATE, 0, "none")
                  EXCEPT !.submitted = FALSE]
    /\ pc = [s \in Sessions |-> "idle"]
    /\ df = [s \in Sessions |-> <<>>]
    /\ entry = [s \in Sessions |-> NoRow]
    /\ sample = NoRow
    /\ exploded = <<>>

\* ---------------------------------------------------------------- actions
\* One whole run of the script on a submitted form, no other run in between:
\* load (line 52), validate (71-78), append and save (80-87).
Submit(name, start_date, end_date, steps) ==
    LET frame == load_data(store)
        msg == Outcome(frame, name, start_date, end_date)
    IN  /\ Len(store) < MaxEntries
        /\ prev' = store
        /\ last' = Run(name, start_date, end_date, steps, msg)
        /\ store' = IF msg = "Accepted"
                    THEN to_csv(Append(frame, new_entry(name, start_date, end_date, steps)))
                    ELSE store
        /\ UNCHANGED <<pc, df, entry, sample, exploded>>

NextSeq ==
    \E name \in Names, start_date \in Days, end_date \in Days, steps \in StepValues :
        Submit(name, start_date, end_date, steps)

SpecSeq == Init /\ [][NextSeq]_vars

\* The same runs one row further, with one step value (the validation reads
\* no steps).
SubmitLong(name, start_date, end_date) ==
    LET frame == load_data(store)
        msg == Outcome(frame, name, start_date, end_date)
        steps == OneStep
    IN  /\ Len(store) <= MaxEntries
        /\ prev' = store
        /\ last' = Run(name, start_date, end_date, steps, msg)
        /\ store' = IF msg = "Accepted"
                    THEN to_csv(Append(frame, new_entry(name, start_date, end_date, steps)))
                    ELSE store
        /\ UNCHANGED <<pc, df, entry, sample, exploded>>

NextSeqLong ==
    \E name \in Names, start_date \in Days, end_date \in Days :
        SubmitLong(name, start_date, end_date)

SpecSeqLong == Init /\ [][NextSeqLong]_vars

\* A session's run up to line 85: load (line 52) and validate (71-78).  A
\* rejected run ends here; an accepted one still has to append and save.
Begin(s, name, start_date, end_date, steps) ==
    LET frame == load_data(store)
        msg == Outcome(frame, name, start_date, end_date)
    IN  /\ pc[s] # "validated"
        /\ Len(store) < MaxConcEntries
        /\ prev' = store
        /\ store' = store
        /\ IF msg = "Accepted"
           THEN /\ pc' = [pc EXCEPT ![s] = "validated"]
                /\ df' = [df EXCEPT ![s] = frame]
                /\ entry' = [entry EXCEPT ![s] = new_entry(name, start_date, end_date, steps)]
                /\ last' = last
           ELSE /\ pc' = [pc EXCEPT ![s] = "idle"]
                /\ df' = [df EXCEPT ![s] = <<>>]
                /\ entry' = [entry EXCEPT ![s] = NoRow]
                /\ last' = Run(name, start_date, end_date, steps, msg)
        /\ UNCHANGED <<sample, exploded>>

\* Lines 86-88 of a session's run: the frame of line 52 plus the new row
\* replaces the file.
Save(s) ==
    /\ pc[s] = "validated"
    /\ prev' = store
    /\ store' = to_csv(Append(df[s], entry[s]))
    /\ pc' = [pc EXCEPT ![s] = "saved"]
    /\ last' = Run(entry[s].name, entry[s].start_date, entry[s].end_date,
                   entry[s].steps, "Accepted")
    /\ UNCHANGED <<df, entry, sample, exploded>>

NextConc ==
    \/ \E s \in Sessions, name \in Names, start_date \in Days, end_date \in Days :
           Begin(s, name, start_date, end_date, OneStep)
    \/ \E s \in Sessions : Save(s)

SpecConc == Init /\ [][NextConc]_vars

\* ------------------------------------------------------ expansion samples
\* The dates the date inputs admit.
AllowedDays == ALLOWED_START_DATE..ALLOWED_END_DATE

\* One stored row of any admitted range and any step total up to MaxSteps.
InitExpand ==
    /\ store = <<>>
    /\ prev = <<>>
    /\ last = [Run("", ALLOWED_START_DATE, ALLOWED_START_DATE, 0, "none")
                  EXCEPT !.submitted = FALSE]
    /\ pc = [s \in Sessions |-> "idle"]
    /\ df = [s \in Sessions |-> <<>>]
    /\ entry = [s \in Sessions |-> NoRow]
    /\ \E start_date \in AllowedDays, end_date \in AllowedDays, steps \in 0..MaxSteps :
          /\ start_date <= end_date
          /\ sample = new_entry("Al", start_date, end_date, steps)
    /\ exploded = <<>>

\* Lines 93-106 on the one row.
Explode ==
    /\ exploded = <<>>
    /\ exploded' = exploded_df(<<sample>>)
    /\ UNCHANGED <<store, prev, last, pc, df, entry, sample>>

NextExpand == Explode

SpecExpand == InitExpand /\ [][NextExpand]_vars

\* ================================================================= claims
Abs(x) == IF x < 0 THEN 0 - x ELSE x

\* Two inclusive ranges share a day.
ShareDay(s1, e1, s2, e2) ==
    \E d \in AllowedDays : s1 <= d /\ d <= e1 /\ s2 <= d /\ d <= e2

\* The rows of a file a candidate name belongs with: same name ignoring case.
SameParticipant(file, name) ==
    {i \in 1..Len(file) : Lower(file[i].name) = Lower(name)}

LastValid == last.submitted /\ last.start_date <= last.end_date

LastRow == new_entry(last.name, last.start_date, last.end_date, last.steps)

LastOverlaps ==
    \E i \in SameParticipant(prev, last.name) :
        ShareDay(last.start_date, last.end_date, prev[i].start_date, prev[i].end_date)

\* The steps the rows of a file contribute, each day's share rounded to the
\* nearest integer (ties to even).
RECURSIVE RoundedTotal(_)
RoundedTotal(file) ==
    IF file = <<>> THEN 0
    ELSE LET r == Head(file)
             n == r.end_date - r.start_date + 1
         IN  n * RoundHalfEven(r.steps, n) + RoundedTotal(Tail(file))

RECURSIVE SumOver(_, _)
SumOver(S, f) ==
    IF S = {} THEN 0
    ELSE LET x == CHOOSE y \in S : TRUE
         IN  (IF x \in DOMAIN f THEN f[x] ELSE 0) + SumOver(S \ {x}, f)

\* C1: after submissions processed one at a time, no two stored entries
\* whose names are equal ignoring case have overlapping inclusive ranges.
C1_NoOverlap ==
    \A i, j \in 1..Len(store) :
        (i < j /\ Lower(store[i].name) = Lower(store[j].name))
            => ~(Max(store[i].start_date, store[j].start_date)
                   <= Min(store[i].end_date, store[j].end_date))

\* C2: a submission with start_date > end_date is rejected with
\* InvalidRange and leaves the store unchanged, and every stored entry has
\* start_date <= end_date.
C2_InvalidRangeRejected ==
    /\ \A i \in 1..Len(store) : store[i].start_date <= store[i].end_date
    /\ (last.submitted /\ last.start_date > last.end_date)
           => (last.msg = "InvalidRange" /\ store = prev)

C2_Witness ==
    /\ last.submitted
    /\ last.start_date > last.end_date
    /\ last.msg = "InvalidRange"
    /\ Len(store) > 0
    /\ store = prev

\* C3: a submission whose range shares a day with a stored entry of the
\* same participant (names compared ignoring case) is rejected with
\* OverlapConflict and leaves the store unchanged, touching endpoints
\* included.
C3_OverlapRejected ==
    (LastValid /\ LastOverlaps)
        => (last.msg = "OverlapConflict" /\ store = prev)

\* C4: a submission with start_date <= end_date that overlaps no stored
\* entry of the same participant is accepted, and the store is then the
\* store before plus the one new entry as submitted.
C4_NonOverlapAccepted ==
    (LastValid /\ ~LastOverlaps)
        => (last.msg = "Accepted" /\ store = Append(prev, LastRow))

\* C5: an entry once stored stays in the store, with the same name, dates
\* and steps, over every later step of any session.
C5_EntriesPersist ==
    [][\A i \in 1..Len(store) : \E j \in 1..Len(store') : store'[j] = store[i]]_vars

\* C6: one entry over day_count days expands to day_count records, one per
\* day, each holding steps / day_count rounded to the nearest integer; their
\* sum is within day_count / 2 of steps and equals steps exactly when
\* day_count divides steps (a single-day entry carries the full steps).
C6_ExpansionRounding ==
    exploded # <<>> =>
        LET day_count == (sample.end_date - sample.start_date) + 1
            sum == SumSteps(exploded)
        IN  /\ Len(exploded) = day_count
            /\ \A k \in 1..Len(exploded) :
                  /\ exploded[k].date = sample.start_date + k - 1
                  /\ 2 * Abs(day_count * exploded[k].steps - sample.steps) <= day_count
            /\ 2 * Abs(sum - sample.steps) <= day_count
            /\ (sum = sample.steps) <=> (sample.steps % day_count = 0)
            /\ day_count = 1 => exploded[1].steps = sample.steps

C6_Witness ==
    /\ exploded # <<>>
    /\ Len(exploded) > 1
    /\ 2 * (sample.steps % Len(exploded)) = Len(exploded)
    /\ SumSteps(exploded) # sample.steps

\* The ISO weeks that contain a day of the challenge month.
WeeksOfMonth == {ISOWeek(d) : d \in AllowedDays}

\* C7: whenever the monthly leaderboard is shown, each participant's monthly
\* total is the sum of that participant's weekly totals over the ISO weeks
\* of the month, and the monthly totals together equal the weekly totals
\* together.
C7_MonthlyIsSumOfWeeks ==
    LET frame == load_data(store)
        records == exploded_df(frame)
        monthly == monthly_df(records)
        weekly == [w \in WeeksOfMonth |-> week_leaderboard(records, w)]
        WeekSum(n) == SumOver(WeeksOfMonth, [w \in WeeksOfMonth |->
                          IF n \in DOMAIN weekly[w] THEN weekly[w][n] ELSE 0])
        everyone == DOMAIN monthly \cup UNION {DOMAIN weekly[w] : w \in WeeksOfMonth}
    IN  "monthly" \in Shown(frame) =>
            /\ \A n \in everyone : n \in DOMAIN monthly /\ monthly[n] = WeekSum(n)
            /\ SumOver(DOMAIN monthly, monthly)
                 = SumOver(WeeksOfMonth,
                           [w \in WeeksOfMonth |-> SumOver(DOMAIN weekly[w], weekly[w])])

\* A participant with records in two ISO weeks beside another participant.
C7_Witness ==
    LET frame == load_data(store)
        records == exploded_df(frame)
        monthly == monthly_df(records)
    IN  /\ "monthly" \in Shown(frame)
        /\ Cardinality(DOMAIN monthly) >= 2
        /\ \E n \in DOMAIN monthly :
              /\ Cardinality({w \in WeeksOfMonth : n \in DOMAIN week_leaderboard(records, w)}) >= 2
              /\ monthly[n] > 0

C9_BothStored ==
    \A s, t \in Sessions :
        ( /\ s # t
          /\ pc[s] = "saved" /\ pc[t] = "saved"
          /\ df[s] = df[t]
          /\ entry[s] # entry[t]
          /\ Lower(entry[s].name) = Lower(entry[t].name)
          /\ ShareDay(entry[s].start_date, entry[s].end_date,
                      entry[t].start_date, entry[t].end_date) )
        => ( /\ \E i \in 1..Len(store) : store[i] = entry[s]
             /\ \E j \in 1..Len(store) : store[j] = entry[t] )

\* C10: names are matched ignoring case by the validation and the history
\* but exactly by the leaderboards: a candidate is rejected over an
\* overlapping stored entry under the other spelling, the history of either
\* spelling lists the entries of both, and each spelling stored has its own
\* monthly and weekly rows totalling the entries under exactly that spelling.
C10_CaseInsensitiveMatchExactGroups ==
    LET frame == load_data(store)
        records == exploded_df(frame)
        stored == {store[i].name : i \in 1..Len(store)}
        Exactly(n) == SelectSeq(store, LAMBDA r : r.name = n)
    IN  /\ (LastValid /\ \E i \in SameParticipant(prev, last.name) :
                /\ prev[i].name # last.name
                /\ ShareDay(last.start_date, last.end_date,
                            prev[i].start_date, prev[i].end_date))
              => (last.msg = "OverlapConflict" /\ store = prev)
        /\ \A n1, n2 \in stored :
              (n1 # n2 /\ Lower(n1) = Lower(n2)) =>
                  /\ "history" \in Shown(frame)
                  /\ user_entries(frame, n1) = user_entries(frame, n2)
                  /\ \A i \in 1..Len(store) :
                        store[i].name \in {n1, n2}
                            => \E k \in 1..Len(user_entries(frame, n1)) :
                                   user_entries(frame, n1)[k] = store[i]
                  /\ n1 \in DOMAIN monthly_df(records)
                  /\ monthly_df(records)[n1] = RoundedTotal(Exactly(n1))
                  /\ \A w \in weeks_available(records) :
                        n1 \in DOMAIN week_leaderboard(records, w)
                            => week_leaderboard(records, w)[n1]
                                 = SumSteps(SelectSeq(exploded_df(Exactly(n1)),
                                                      LAMBDA r : r.week = w))

\* ---------------------------------------------------------------- scope
\* C1, C3, C4 and C10 fail only through names that read_csv reads as
\* missing.  The same statements hold of every run that meets no such name.
PlainFile(file) == \A i \in 1..Len(file) : file[i].name \notin NA_VALUES

PlainRun == PlainFile(prev) /\ PlainFile(store) /\ last.name \notin NA_VALUES

C1_NoOverlap_PlainNames == PlainFile(store) => C1_NoOverlap

C3_OverlapRejected_PlainNames == PlainRun => C3_OverlapRejected

C4_NonOverlapAccepted_PlainNames == PlainRun => C4_NonOverlapAccepted

C10_PlainNames == PlainRun => C10_CaseInsensitiveMatchExactGroups

====
